---- MODULE Spec2Model ----
(***************************************************************************)
(* Model of src/src/App.tsx: the App component of the interview coach.     *)
(*                                                                         *)
(* React state (useState) and refs (useRef) are the variables.  One action *)
(* is one event-loop task: a click handler, a speech-recognition callback  *)
(* or the continuation of an awaited network call, followed by the render  *)
(* it causes and by the passive effect useEffect[isListening, transcript]  *)
(* of that render.  Handlers read state through the closure of the last    *)
(* committed render, which is the state at the start of the action; the    *)
(* recognition callbacks are created by the mount effect and keep the      *)
(* closure of the first render.                                            *)
(*                                                                         *)
(* Strings that the code trims are sequences of characters; the text of a  *)
(* completion is a sequence of lexical tokens.                             *)
(***************************************************************************)
EXTENDS Integers, Sequences, FiniteSets, Bags, TLC

\* ------------------------------------------------------------------ bounds
\* evaluation requests in flight at once
MaxEvalReqs == 2
\* question requests in flight at once
MaxQuestionReqs == 1
\* prose tokens on each side of the object in a generated completion text
MaxProse == 1
\* members of a generated JSON object
MaxMembers == 3
\* length of a free-form generated completion text
MaxFreeLen == 4

\* ------------------------------------------------------------- strings
\* String.prototype.trim on a sequence of characters
RECURSIVE TrimLeft(_)
TrimLeft(s) ==
  IF s = <<>> THEN s
  ELSE IF Head(s) = " " THEN TrimLeft(Tail(s)) ELSE s

RECURSIVE TrimRight(_)
TrimRight(s) ==
  IF s = <<>> THEN s
  ELSE IF s[Len(s)] = " " THEN TrimRight(SubSeq(s, 1, Len(s) - 1)) ELSE s

Trim(s) == TrimRight(TrimLeft(s))

\* the phrases a recognition result may carry
Phrases == { <<" ">>, <<"a">>, <<" ", "b", " ">> }
\* the contents a generated question may have
QuestionTexts == { <<" ">>, <<" ", "q">> }

\* ----------------------------------------- completion text and JSON
LB == [t |-> "{"]
RB == [t |-> "}"]
Colon == [t |-> ":"]
Comma == [t |-> ","]
Word == [t |-> "word"]
Str(s) == [t |-> "str", s |-> s]
Num(n) == [t |-> "num", n |-> n]

\* null, and a value that is set
Null == <<>>
Some(v) == <<v>>

\* the object {} and obj with key k set to v (a later duplicate key wins)
EmptyObj == [k \in {} |-> Null]
Put(obj, k, v) == [x \in DOMAIN obj \cup {k} |-> IF x = k THEN v ELSE obj[x]]

Bad == [ok |-> FALSE, val |-> Null, next |-> 0]

\* JSON.parse, by recursive descent over the tokens from position i on:
\* [ok, val, next] with next the position after the value
RECURSIVE ParseValue(_, _)
RECURSIVE ParseMembers(_, _, _)
ParseMembers(toks, i, obj) ==
  IF i + 2 > Len(toks) \/ toks[i].t # "str" \/ toks[i + 1] # Colon THEN Bad
  ELSE LET v == ParseValue(toks, i + 2) IN
       IF ~v.ok \/ v.next > Len(toks) THEN Bad
       ELSE LET o2 == Put(obj, toks[i].s, v.val) IN
            IF toks[v.next] = RB
              THEN [ok |-> TRUE, val |-> [t |-> "obj", o |-> o2], next |-> v.next + 1]
            ELSE IF toks[v.next] = Comma THEN ParseMembers(toks, v.next + 1, o2)
            ELSE Bad

ParseValue(toks, i) ==
  IF i > Len(toks) THEN Bad
  ELSE IF toks[i].t \in {"str", "num"}
    THEN [ok |-> TRUE, val |-> toks[i], next |-> i + 1]
  ELSE IF toks[i] = LB
    THEN IF i + 1 <= Len(toks) /\ toks[i + 1] = RB
           THEN [ok |-> TRUE, val |-> [t |-> "obj", o |-> EmptyObj], next |-> i + 2]
           ELSE ParseMembers(toks, i + 1, EmptyObj)
  ELSE Bad

\* JSON.parse(text): Some(object) or Null when it throws
JSONParse(toks) ==
  LET r == ParseValue(toks, 1) IN
  IF r.ok /\ r.next = Len(toks) + 1 /\ r.val.t = "obj" THEN Some(r.val.o) ELSE Null

\* a match that lacks the closing brace of the pattern: it runs from the
\* first "{" to the end of the text
RegexMatchToEnd(text) ==
  LET ls == {i \in 1..Len(text) : text[i] = LB} IN
  IF ls = {} THEN Null
  ELSE Some(SubSeq(text, CHOOSE i \in ls : \A j \in ls : i <= j, Len(text)))

\* text.match(/\{[\s\S]*\}/): the greedy match runs from the first "{" to
\* the last "}" after it; Null when there is none
RegexMatch(text) ==
  LET ls == {i \in 1..Len(text) : text[i] = LB}
      rs == {i \in 1..Len(text) : text[i] = RB}
  IN
  IF ls = {} THEN Null
  ELSE LET first == CHOOSE i \in ls : \A j \in ls : i <= j
           after == {j \in rs : j > first}
       IN IF after = {} THEN Null
          ELSE LET last == CHOOSE j \in after : \A m \in after : m <= j
               IN Some(SubSeq(text, first, last))

extractJSON(text) ==
  LET match == RegexMatch(text) IN
  IF match # Null THEN JSONParse(match[1]) ELSE Null

\* the completion texts the evaluation request may be answered with
GoodText ==
  << Word, LB, Str("correctness"), Colon, Num(4), Comma, Str("completeness"), Colon,
     Num(3), Comma, Str("feedback"), Colon, Str("Good answer"), RB >>
OutOfRangeText ==
  << LB, Str("correctness"), Colon, Num(7), Comma, Str("completeness"), Colon,
     Num(3), Comma, Str("feedback"), Colon, Str("Good answer"), RB, Word >>
NoBraceText == << Word, Word >>
BrokenText == << LB, Word, RB >>
EvalResponses == { GoodText, OutOfRangeText, NoBraceText, BrokenText }

\* ------------------------------------------------------------- state
VARIABLES
  isListening, transcript, feedbackLoadingStatus, questionStatus, question,
  feedback,          \* the useState cells
  transcriptRef,     \* transcriptRef.current
  supported,         \* recognitionRef.current is set (the capability exists)
  recState,          \* the recognizer: "idle", "started", "resulted"
  questionReqs,      \* question requests in flight
  evalReqs,          \* evaluation requests in flight
  tStale, refStale,  \* history: transcript / the ref hold text of an earlier session
  got,               \* history: what the result event of the latest session delivered
  sentCount,         \* history: evaluation requests sent for the latest session's text
  guardSkipped,      \* history: some getFeedback call returned at a guard
  noAnswerNotice,    \* history: alert('No answer detected.') was raised since the
                     \* latest session started
  nextQuiet,         \* history: Next Question was clicked, its request has not
                     \* settled and the user has clicked nothing since
  lastOp,            \* history: the last task that ran
  xtext, xobj, xres, xpc   \* the extractJSON harness: input, the object
                     \* embedded in it, result, position

appVars == << isListening, transcript, feedbackLoadingStatus, questionStatus,
              question, feedback, transcriptRef, supported, recState,
              questionReqs, evalReqs, tStale, refStale, got, sentCount,
              guardSkipped, noAnswerNotice, nextQuiet, lastOp >>
xVars == << xtext, xobj, xres, xpc >>
vars == << appVars, xVars >>

\* the transcript the first render closes over: recognition.onend is created
\* by the mount effect (deps []) and never sees a later render
mountTranscript == <<>>

\* ------------------------------------------------------- getFeedback
\* getFeedback embedding the trimmed transcript instead of the transcript
SendEvaluationTrimmed(answerText, tr, q, net) ==
  [ fls |-> TRUE,
    reqs |-> net.reqs (+)
             SetToBag({ [ q |-> q, a |-> Trim(tr), arg |-> answerText,
                          busy |-> net.fls ] }),
    cnt |-> net.cnt + 1,
    skip |-> net.skip ]

\* openai.chat.completions.create of getFeedback: the prompt carries the
\* question and the transcript of the calling render; arg and busy record
\* the answerText argument and the loading flag at the call
SendEvaluation(answerText, tr, q, net) ==
  [ fls |-> TRUE,
    reqs |-> net.reqs (+)
             SetToBag({ [ q |-> q, a |-> tr, arg |-> answerText, busy |-> net.fls ] }),
    cnt |-> net.cnt + 1,
    skip |-> net.skip ]

\* getFeedback without its guard on the transcript of the render
GetFeedbackArgumentGuardOnly(answerText, tr, q, net) ==
  IF Trim(answerText) = <<>> THEN [net EXCEPT !.skip = TRUE]
  ELSE SendEvaluation(answerText, tr, q, net)

\* The synchronous part of getFeedback, called with answerText from a render
\* whose transcript is tr and question q.
\* net = [fls, reqs, cnt, skip]: the loading flag, the requests in flight,
\* the request count of the session, the guard history.
GetFeedback(answerText, tr, q, net) ==
  IF Trim(answerText) = <<>> THEN [net EXCEPT !.skip = TRUE]
  ELSE IF Trim(tr) = <<>> THEN [net EXCEPT !.skip = TRUE]
  ELSE SendEvaluation(answerText, tr, q, net)

Net == [ fls |-> feedbackLoadingStatus, reqs |-> evalReqs, cnt |-> sentCount,
         skip |-> guardSkipped ]

\* useEffect[isListening, transcript] of the render that commits isL2, tr2:
\* it runs when a dependency changed
ListeningEffect(isL2, tr2, ref2, q2, net) ==
  IF (isL2 # isListening \/ tr2 # transcript) /\ ~isL2 /\ Trim(tr2) # <<>>
    THEN GetFeedback(ref2, tr2, q2, net)
    ELSE net

\* the state the synchronous part of getFeedback leaves; a task that would put
\* more than MaxEvalReqs requests in flight is not taken
SetNet(net) ==
  /\ BagCardinality(net.reqs) <= MaxEvalReqs
  /\ feedbackLoadingStatus' = net.fls
  /\ evalReqs' = net.reqs
  /\ sentCount' = net.cnt
  /\ guardSkipped' = net.skip

\* ------------------------------------------------------------- Init
\* after the first render and the mount effect: getQuestion is under way
Init ==
  /\ isListening = FALSE
  /\ transcript = <<>>
  /\ feedbackLoadingStatus = FALSE
  /\ questionStatus = TRUE
  /\ question = <<>>
  /\ feedback = Null
  /\ transcriptRef = <<>>
  /\ supported \in BOOLEAN
  /\ recState = "idle"
  /\ questionReqs = 1
  /\ evalReqs = EmptyBag
  /\ tStale = FALSE
  /\ refStale = FALSE
  /\ got = "none"
  /\ sentCount = 0
  /\ guardSkipped = FALSE
  /\ noAnswerNotice = FALSE
  /\ nextQuiet = FALSE
  /\ lastOp = "mount"
  /\ xtext = <<>>
  /\ xobj = Null
  /\ xres = Null
  /\ xpc = "off"

\* ---------------------------------------------------------- handlers
\* start() without the ?. on a missing recognizer
RecognitionStartUnchecked(tr2, net) ==
  IF recState = "idle"
    THEN /\ recState' = "started"
         /\ got' = "none"
         /\ tStale' = (tr2 # <<>>)
         /\ refStale' = (transcriptRef # <<>>)
         /\ noAnswerNotice' = FALSE
         /\ SetNet([net EXCEPT !.cnt = 0])
    ELSE /\ UNCHANGED << recState, got, tStale, refStale, noAnswerNotice >>
         /\ SetNet(net)

\* recognitionRef.current?.start() after the handler set the transcript to
\* tr2: nothing without the capability; a new session when the recognizer is
\* idle; InvalidStateError, as the last statement of the handler, when a
\* session is still running
RecognitionStart(tr2, net) ==
  IF supported /\ recState = "idle"
    THEN /\ recState' = "started"
         /\ got' = "none"
         /\ tStale' = (tr2 # <<>>)
         /\ refStale' = (transcriptRef # <<>>)
         /\ noAnswerNotice' = FALSE
         /\ SetNet([net EXCEPT !.cnt = 0])
    ELSE /\ UNCHANGED << recState, got, tStale, refStale, noAnswerNotice >>
         /\ SetNet(net)

\* handleStartListening, after which the effect finds isListening true
HandleStartListening ==
  /\ isListening' = TRUE
  /\ transcript' = <<>>
  /\ RecognitionStart(<<>>, Net)
  /\ nextQuiet' = FALSE
  /\ UNCHANGED << transcriptRef, supported, question, questionStatus,
                  questionReqs, xVars >>

\* the Start/Submit control is hidden while feedback is shown
ClickStart ==
  /\ feedback = Null
  /\ ~isListening
  /\ HandleStartListening
  /\ UNCHANGED feedback
  /\ lastOp' = "handleStartListening"

\* handleStopListening, then the effect of the render with isListening false.
\* recognitionRef.current?.stop() asks the recognizer to finish: the result
\* and end events of the session still arrive, as OnResult and OnEnd.
HandleStopListening ==
  LET net1 == IF Trim(transcriptRef) # <<>>
                THEN GetFeedback(transcriptRef, transcript, question, Net)
                ELSE Net    \* alert('No answer detected.')
  IN
  /\ isListening' = FALSE
  /\ noAnswerNotice' = (noAnswerNotice \/ Trim(transcriptRef) = <<>>)
  /\ nextQuiet' = FALSE
  /\ SetNet(ListeningEffect(FALSE, transcript, transcriptRef, question, net1))
  /\ UNCHANGED << transcript, transcriptRef, tStale, refStale, got, supported,
                  question, questionStatus, questionReqs, feedback, recState,
                  xVars >>

ClickStop ==
  /\ feedback = Null
  /\ isListening
  /\ HandleStopListening
  /\ lastOp' = "handleStopListening"

\* a reattempt that restarts capture and leaves the feedback
HandleReattemptKeepsFeedback ==
  /\ UNCHANGED feedback
  /\ HandleStartListening

\* handleReattempt
HandleReattempt ==
  /\ feedback' = Null
  /\ HandleStartListening

\* the Reattempt control is shown with the feedback
ClickReattempt ==
  /\ feedback # Null
  /\ HandleReattempt
  /\ lastOp' = "handleReattempt"

\* getQuestion up to its await
GetQuestionStart ==
  /\ questionReqs < MaxQuestionReqs
  /\ questionStatus' = TRUE
  /\ feedback' = Null
  /\ questionReqs' = questionReqs + 1
  /\ nextQuiet' = TRUE
  /\ UNCHANGED << isListening, transcript, transcriptRef, tStale, refStale, got,
                  supported, question, recState, feedbackLoadingStatus, evalReqs,
                  sentCount, guardSkipped, noAnswerNotice, xVars >>

\* the Next Question control is hidden while listening
ClickNextQuestion ==
  /\ ~isListening
  /\ GetQuestionStart
  /\ lastOp' = "getQuestion"

\* getQuestion after its await: the question becomes q2, the finally block
\* clears the flag
QuestionSettled(q2) ==
  /\ questionReqs > 0
  /\ questionReqs' = questionReqs - 1
  /\ question' = q2
  /\ questionStatus' = FALSE
  /\ nextQuiet' = FALSE
  /\ UNCHANGED << isListening, transcript, transcriptRef, tStale, refStale, got,
                  supported, feedback, recState, feedbackLoadingStatus, evalReqs,
                  sentCount, guardSkipped, noAnswerNotice, xVars >>

\* the completion arrived with this content
QuestionAnswered(content) ==
  LET generated == Trim(content) IN
  QuestionSettled(IF generated # <<>> THEN generated ELSE question)

QuestionResolved ==
  /\ \E content \in QuestionTexts : QuestionAnswered(content)
  /\ lastOp' = "questionResolved"

\* a catch that resets the question
QuestionFailedClearsQuestion == QuestionSettled(<<>>)

\* the request threw: the catch logs
QuestionFailed == QuestionSettled(question)

QuestionRejected ==
  /\ QuestionFailed
  /\ lastOp' = "questionRejected"

\* getFeedback after its await, for request r: feedback becomes fb2, the
\* finally block clears the flag
EvalSettled(r, fb2) ==
  /\ BagIn(r, evalReqs)
  /\ feedback' = fb2
  /\ feedbackLoadingStatus' = FALSE
  /\ evalReqs' = evalReqs (-) SetToBag({r})
  /\ UNCHANGED << isListening, transcript, transcriptRef, tStale, refStale, got,
                  supported, question, questionStatus, questionReqs, recState,
                  sentCount, guardSkipped, noAnswerNotice, nextQuiet, xVars >>

\* the completion arrived with this text
EvalAnswered(r, text) ==
  LET parsed == extractJSON(text) IN
  /\ EvalSettled(r, IF parsed # Null THEN parsed ELSE feedback)
  /\ lastOp' = IF parsed # Null THEN "feedbackSet" ELSE "feedbackUnparsed"

EvalResolved == \E r \in BagToSet(evalReqs) : \E text \in EvalResponses : EvalAnswered(r, text)

\* the request threw, or the completion had no content (text.match throws):
\* the catch alerts
EvalRejected ==
  /\ \E r \in BagToSet(evalReqs) : EvalSettled(r, feedback)
  /\ lastOp' = "feedbackFailed"

\* recognition.onresult, then the effect of the render with the new transcript.
\* The recognizer is set up with continuous = false and interimResults =
\* false: a session delivers at most one result, before its end event.
OnResult ==
  /\ supported
  /\ recState = "started"
  /\ \E result \in Phrases :
       /\ transcriptRef' = result
       /\ transcript' = result
       /\ got' = IF Trim(result) # <<>> THEN "text" ELSE "blank"
       /\ SetNet(ListeningEffect(isListening, result, result, question, Net))
  /\ tStale' = FALSE
  /\ refStale' = FALSE
  /\ recState' = "resulted"
  /\ UNCHANGED << isListening, supported, question, questionStatus, questionReqs,
                  feedback, noAnswerNotice, nextQuiet, xVars >>
  /\ lastOp' = "onresult"

\* recognition.onend with the closure of the first render, then the effect
OnEnd ==
  LET net1 == IF Trim(mountTranscript) # <<>>
                THEN GetFeedback(transcriptRef, mountTranscript, <<>>, Net)
                ELSE Net    \* console.warn('No transcript available.')
  IN
  /\ supported
  /\ recState # "idle"
  /\ recState' = "idle"
  /\ isListening' = FALSE
  /\ SetNet(ListeningEffect(FALSE, transcript, transcriptRef, question, net1))
  /\ UNCHANGED << transcript, transcriptRef, tStale, refStale, got, supported,
                  question, questionStatus, questionReqs, feedback, noAnswerNotice,
                  nextQuiet, xVars >>
  /\ lastOp' = "onend"

Next ==
  \/ ClickStart
  \/ ClickStop
  \/ ClickReattempt
  \/ ClickNextQuestion
  \/ QuestionResolved
  \/ QuestionRejected
  \/ EvalResolved
  \/ EvalRejected
  \/ OnResult
  \/ OnEnd

Spec == Init /\ [][Next]_vars

\* ------------------------------------------------- extractJSON alone
\* all sequences over S of length at most n
RECURSIVE SeqsUpTo(_, _)
SeqsUpTo(S, n) ==
  IF n = 0 THEN { <<>> }
  ELSE LET shorter == SeqsUpTo(S, n - 1) IN
       shorter \cup { Append(q, x) : q \in shorter, x \in S }

\* the members "key": value a generated object is written with
MemberKeys == { "correctness", "completeness", "feedback" }
MemberValues == { Num(4), Str("Good answer") }
Members == MemberKeys \X MemberValues

\* the tokens of the members ms between the braces
RECURSIVE MemberTokens(_)
MemberTokens(ms) ==
  IF ms = <<>> THEN <<>>
  ELSE << Str(ms[1][1]), Colon, ms[1][2] >>
       \o (IF Len(ms) > 1 THEN << Comma >> ELSE <<>>)
       \o MemberTokens(Tail(ms))

\* the object the members ms denote
RECURSIVE MemberObject(_)
MemberObject(ms) ==
  IF ms = <<>> THEN EmptyObj
  ELSE LET n == Len(ms) IN
       Put(MemberObject(SubSeq(ms, 1, n - 1)), ms[n][1], ms[n][2])

\* brace-free prose
ProseTokens == { Word, Colon }
Prose == SeqsUpTo(ProseTokens, MaxProse)

\* a text with exactly one object, written with members ms, between prose
EmbeddedText(pre, ms, post) == pre \o << LB >> \o MemberTokens(ms) \o << RB >> \o post

FreeTokens == { LB, RB, Word, Colon, Str("feedback"), Num(4) }
FreeTexts == SeqsUpTo(FreeTokens, MaxFreeLen)

InitExtract ==
  /\ isListening = FALSE
  /\ transcript = <<>>
  /\ feedbackLoadingStatus = FALSE
  /\ questionStatus = TRUE
  /\ question = <<>>
  /\ feedback = Null
  /\ transcriptRef = <<>>
  /\ supported = FALSE
  /\ recState = "idle"
  /\ questionReqs = 1
  /\ evalReqs = EmptyBag
  /\ tStale = FALSE
  /\ refStale = FALSE
  /\ got = "none"
  /\ sentCount = 0
  /\ guardSkipped = FALSE
  /\ noAnswerNotice = FALSE
  /\ nextQuiet = FALSE
  /\ lastOp = "mount"
  /\ xres = Null
  /\ xpc = "ready"
  /\ \/ \E pre \in Prose, post \in Prose, ms \in SeqsUpTo(Members, MaxMembers) :
          /\ xtext = EmbeddedText(pre, ms, post)
          /\ xobj = Some(MemberObject(ms))
     \/ /\ xtext \in FreeTexts
        /\ xobj = Null

\* one call extractJSON(xtext)
Extract ==
  /\ xpc = "ready"
  /\ xres' = extractJSON(xtext)
  /\ xpc' = "done"
  /\ UNCHANGED << appVars, xtext, xobj >>

NextExtract == Extract

SpecExtract == InitExtract /\ [][NextExtract]_vars

\* ================================================================ claims

\* C1: every evaluation request that is sent carries a transcript that is
\* non-empty after trimming, and was sent by a getFeedback call whose answer
\* argument is non-empty after trimming.
EvaluationNeverBlank ==
  \A r \in BagToSet(evalReqs) : Trim(r.a) # <<>> /\ Trim(r.arg) # <<>>

\* a getFeedback call returned at a guard, and a request is in flight
EvaluationNeverBlankWitness == guardSkipped /\ evalReqs # EmptyBag

\* C2: at most one evaluation request is sent for the transcript of one
\* capture session.
AtMostOneEvaluationPerSession == sentCount <= 1

\* C3 (first half): once a session that delivered a non-blank transcript has
\* ended, an evaluation request for that transcript has been sent.
EndedSessionEvaluated ==
  (supported /\ recState = "idle" /\ got = "text") => sentCount >= 1

\* C3 (second half): the end of a session that delivered no non-blank
\* transcript sends no request and leaves question, transcript and feedback.
EmptyEndIsNoOp ==
  [][(OnEnd /\ got # "text") =>
       UNCHANGED << question, transcript, feedback, evalReqs >>]_vars

\* C3: both halves.
EndTriggersEvaluation == []EndedSessionEvaluated /\ EmptyEndIsNoOp

\* C4: a feedback that is set has correctness and completeness in 0..5 and a
\* non-empty feedback text.
InRange(v) == v.t = "num" /\ v.n \in 0..5
FeedbackWellFormed ==
  feedback # Null =>
    LET fb == feedback[1] IN
    /\ MemberKeys \subseteq DOMAIN fb
    /\ InRange(fb["correctness"])
    /\ InRange(fb["completeness"])
    /\ fb["feedback"].t = "str"
    /\ fb["feedback"].s # ""

\* C5: while listening, neither the transcript state nor transcriptRef.current
\* (the value handed to getFeedback) holds text recognized in an earlier
\* session.
NoEarlierTextWhileListening == isListening => (~tStale /\ ~refStale)

\* C6: handleReattempt leaves feedback unset, the transcript empty, the
\* listening flag true with a recognition session running where the
\* capability exists, and the question as it was.
ReattemptRestartsCapture ==
  [][ClickReattempt =>
       /\ feedback' = Null
       /\ transcript' = <<>>
       /\ isListening'
       /\ supported => recState' # "idle"
       /\ question' = question]_vars

\* a reattempt has just run from a state that showed feedback
ReattemptWitness ==
  /\ lastOp = "handleReattempt"
  /\ isListening
  /\ feedback = Null
  /\ question # <<>>

\* C7: a question request that fails leaves the question as it was, and every
\* question request that settles clears the question-loading flag.
QuestionFailureKeepsQuestion ==
  [][/\ QuestionRejected => (question' = question /\ ~questionStatus')
     /\ QuestionResolved => ~questionStatus']_vars

\* a request has just failed while a question was displayed
QuestionFailureWitness ==
  /\ lastOp = "questionRejected"
  /\ question # <<>>
  /\ ~questionStatus

\* the text has a "{" with a "}" after it
HasBraced(text) ==
  \E i \in 1..Len(text), j \in 1..Len(text) : i < j /\ text[i] = LB /\ text[j] = RB

\* C8: an evaluation answered with a text that has no brace-delimited
\* substring extracts null and, when it has finished, leaves question,
\* transcript, feedback and the listening and question-loading flags as they
\* were and the evaluation-loading flag as it was before the call.
UnbracedAnswerRestoresState ==
  [][\A r \in BagToSet(evalReqs) : \A text \in EvalResponses :
       (~HasBraced(text) /\ EvalAnswered(r, text)) =>
         /\ extractJSON(text) = Null
         /\ UNCHANGED << question, transcript, feedback, isListening, questionStatus >>
         /\ feedbackLoadingStatus' = r.busy]_vars

\* C9: for a text with exactly one brace-delimited object between brace-free
\* prose, extractJSON returns an object whose correctness, completeness and
\* feedback fields are those of the embedded object.
ExtractRoundTrip ==
  (xpc = "done" /\ xobj # Null) =>
    /\ xres # Null
    /\ \A k \in MemberKeys :
         /\ k \in DOMAIN xres[1] <=> k \in DOMAIN xobj[1]
         /\ k \in DOMAIN xobj[1] => xres[1][k] = xobj[1][k]

\* an object with all three fields was extracted from between prose
ExtractRoundTripWitness ==
  /\ xpc = "done"
  /\ xobj # Null
  /\ DOMAIN xobj[1] = MemberKeys
  /\ xtext[1] # LB
  /\ xtext[Len(xtext)] # RB
  /\ xres = xobj

ManualStopWithoutAnswerNotifies ==
  [][(ClickStop /\ supported /\ recState # "idle" /\ got # "text") =>
       /\ ~isListening'
       /\ noAnswerNotice'
       /\ evalReqs' = evalReqs]_vars

\* C12: an evaluation that ends with an unparseable response or an error
\* leaves the view idle: not listening, feedback unset, the
\* evaluation-loading flag false.
FailedEvaluationLeavesIdle ==
  [][(EvalRejected \/ (EvalResolved /\ lastOp' = "feedbackUnparsed")) =>
       /\ ~isListening'
       /\ feedback' = Null
       /\ ~feedbackLoadingStatus']_vars

\* C13: a Next Question click enters loading-question with feedback cleared,
\* and when its request settles, the user having clicked nothing since, the
\* view is idle with feedback still unset.
NextQuestionEndsIdle ==
  [][/\ ClickNextQuestion => (questionStatus' /\ feedback' = Null)
     /\ ((QuestionResolved \/ QuestionRejected) /\ nextQuiet) =>
          (~isListening' /\ feedback' = Null)]_vars

\* C14: the question-loading flag is true while a question request is in
\* flight and the evaluation-loading flag is true while an evaluation request
\* is in flight, overlapping requests included.
LoadingFlagsCoverRequests ==
  /\ questionReqs > 0 => questionStatus
  /\ evalReqs # EmptyBag => feedbackLoadingStatus

\* C15: every evaluation request a step sends embeds exactly the answer
\* passed to getFeedback, and that answer is the latest phrase recognized in
\* the current capture session.
SentAnswerIsArgument ==
  [][\A r \in BagToSet(evalReqs') :
       CopiesIn(r, evalReqs') > CopiesIn(r, evalReqs) =>
         /\ r.a = r.arg
         /\ r.a = transcriptRef'
         /\ got' = "text"
         /\ ~refStale']_vars

SentAnswerWitness ==
  /\ sentCount > 0
  /\ \E r \in BagToSet(evalReqs) :
       /\ r.a = <<" ", "b", " ">>
       /\ r.arg = r.a
       /\ transcriptRef = r.a

\* the first brace-delimited substring of the text: from its first "{" to
\* the first "}" after it; Null when there is none
FirstBraced(text) ==
  LET ls == {i \in 1..Len(text) : text[i] = LB} IN
  IF ls = {} THEN Null
  ELSE LET first == CHOOSE i \in ls : \A j \in ls : i <= j
           after == {j \in 1..Len(text) : j > first /\ text[j] = RB}
       IN IF after = {} THEN Null
          ELSE Some(SubSeq(text, first, CHOOSE j \in after : \A m \in after : j <= m))

\* C16: extractJSON parses the first brace-delimited substring of the text:
\* when that substring is an object, that object is the result, also when
\* another object follows it.
ExtractParsesFirstObject ==
  (xpc = "done" /\ FirstBraced(xtext) # Null
     /\ JSONParse(FirstBraced(xtext)[1]) # Null) =>
    xres = JSONParse(FirstBraced(xtext)[1])

\* C17: while the listening flag is true no feedback is set and no
\* evaluation request is in flight.
ListeningExcludesEvaluation ==
  isListening => (feedback = Null /\ evalReqs = EmptyBag)

\* C18: the step that sets feedback sets it from a request that carried the
\* question and the transcript the view displays with that feedback.
FeedbackMatchesDisplay ==
  [][\A r \in BagToSet(evalReqs), text \in EvalResponses :
       (EvalAnswered(r, text) /\ extractJSON(text) # Null) =>
         /\ r.q = question'
         /\ r.a = transcript']_vars

\* C19: within one capture session the "No answer detected" notice and an
\* evaluation request are never both produced.
NoticeExcludesEvaluation ==
  ~(noAnswerNotice /\ sentCount > 0)

====
